---- MODULE Spec2Model ----
(***************************************************************************)
(* ClaudeWatch: the usage telemetry engine (usage.py: weekly and session   *)
(* aggregation behind an mtime-keyed cache) and the notification relay     *)
(* (claudewatch.py: the Unix-socket accept loop and its hand-off to the    *)
(* main thread).                                                           *)
(*                                                                         *)
(* Conventions of the model                                                *)
(*  - a calendar date is a day ordinal; day 0 is a Monday.  The ISO date   *)
(*    string of the code is the fixed-width, zero-padded digit string of   *)
(*    the ordinal (IsoFormat), compared as Python compares strings         *)
(*    (StrLeq), so that the code's string comparison is modelled as such.  *)
(*  - Python's None is the record None; a missing dict key is modelled by  *)
(*    the default the code passes to .get().                               *)
(*  - a model id is the sequence of its segments; "key in model_id" is     *)
(*    membership of the key among the segments.                            *)
(***************************************************************************)
EXTENDS Integers, Sequences, FiniteSets, TLC

VARIABLES
    today,        \* the local calendar date of datetime.now(), a day ordinal
    statsFile,    \* ~/.claude/stats-cache.json: [kind, mtime, doc]
    indexes,      \* the sessions-index.json files, in glob order
    files,        \* the session logs: path -> [exists, mtime, log]
    cache,        \* usage._cache
    obsW,         \* what the last get_weekly_stats() call did and returned; seq flips at each call
    obsS,         \* what the last get_session_stats() call did and returned
    lastOp,       \* the handler that ran last, "Env" after a step of the environment
    quietCalls,   \* get_weekly_stats() calls since the stats file was last written: 0, 1, 2 (or more)
    call,         \* the get_weekly_stats() call the main thread is in: [pc, handler, mtime, doc, raced, ordered]
    sock,         \* /tmp/claudewatch.sock: [state, backlog of connections to accept]
    relay,        \* the relay thread: [pc, conn, data, fails]
    conns,        \* the client connections: id -> [st, toSend, inflight, closed, sent, after]
    timers,       \* the zero-delay timers started and not yet fired, oldest first
    dispatched,   \* id -> number of _on_ipc_message calls for that connection
    lastAlert,    \* self.last_alert_time is set
    inst          \* [peer: the pc of a second instance of the application,
                  \*  start: how the last _start_ipc_listener() call ended]

teleVars == <<today, statsFile, indexes, files, cache, obsW, obsS, quietCalls, call>>
relayVars == <<sock, relay, conns, timers, dispatched, lastAlert, inst>>
vars == <<teleVars, relayVars, lastOp>>

None == [none |-> TRUE]
NoPath == "<none>"

(***************************************************************************)
(* Bounds of the model.                                                    *)
(***************************************************************************)
\* modification times range over 0..MaxMtime (0 is the epoch itself)
MaxMtime == 2
\* a stats document holds at most this many daily records
MaxRecords == 2
\* the clock runs from FirstDay, a Sunday, for ClockSteps days, to LastDay
ClockSteps == 1
LastDay == 14
FirstDay == LastDay - ClockSteps

Mtimes == 0..MaxMtime

(***************************************************************************)
(* Dates                                                                   *)
(***************************************************************************)
\* date.isoformat(): fixed width, zero padded
IsoFormat(d) == <<d \div 10, d % 10>>

\* Python's <= on two strings: lexicographic, a proper prefix is smaller
RECURSIVE StrLeq(_, _)
StrLeq(a, b) ==
    IF a = <<>> THEN TRUE
    ELSE IF b = <<>> THEN FALSE
    ELSE IF Head(a) < Head(b) THEN TRUE
    ELSE IF Head(a) > Head(b) THEN FALSE
    ELSE StrLeq(Tail(a), Tail(b))

\* date.weekday(): Monday is 0
Weekday(d) == d % 7

SundayOffset == 6

\* _current_week_bounds(): (monday, sunday) as ISO strings
CurrentWeekBounds(day) ==
    LET monday == day - Weekday(day)
        sunday == monday + SundayOffset
    IN  <<IsoFormat(monday), IsoFormat(sunday)>>

(***************************************************************************)
(* Model names                                                             *)
(***************************************************************************)
OpusKey == "claude-opus-4-5-20251101"
SonnetKey == "claude-sonnet-4-5-20250929"
HaikuKey == "claude-haiku-4-5-20251001"

Contains(modelId, key) == \E i \in DOMAIN modelId : modelId[i] = key

\* _friendly_model_name(): the first key of the table found in the id
FriendlyModelName(modelId) ==
    IF Contains(modelId, OpusKey) THEN "Opus 4.5"
    ELSE IF Contains(modelId, SonnetKey) THEN "Sonnet 4.5"
    ELSE IF Contains(modelId, HaikuKey) THEN "Haiku 4.5"
    ELSE modelId[1]

(***************************************************************************)
(* get_weekly_stats()                                                      *)
(***************************************************************************)
EmptyWeekly ==
    [messages |-> 0, sessions |-> 0, tool_calls |-> 0, tokens_by_model |-> <<>>]

InWeek(mon, d, sun) == StrLeq(mon, d) /\ StrLeq(d, sun)

\* the loop over data["dailyActivity"]
RECURSIVE SumActivity(_, _, _, _)
SumActivity(days, mon, sun, result) ==
    IF days = <<>> THEN result
    ELSE LET day == Head(days)
             next == IF InWeek(mon, day.date, sun)
                     THEN [result EXCEPT
                             !.messages = @ + day.messageCount,
                             !.sessions = @ + day.sessionCount,
                             !.tool_calls = @ + day.toolCallCount]
                     ELSE result
         IN  SumActivity(Tail(days), mon, sun, next)

\* result["tokens_by_model"][friendly] = ....get(friendly, 0) + count
AddTokens(tbm, friendly, count) ==
    IF friendly \in DOMAIN tbm
    THEN [tbm EXCEPT ![friendly] = @ + count]
    ELSE tbm @@ (friendly :> count)

\* the loop over day["tokensByModel"].items()
RECURSIVE SumModels(_, _, _)
SumModels(byModel, ids, tbm) ==
    IF ids = {} THEN tbm
    ELSE LET m == CHOOSE x \in ids : TRUE
         IN  SumModels(byModel, ids \ {m},
                       AddTokens(tbm, FriendlyModelName(m), byModel[m]))

\* the loop over data["dailyModelTokens"]
RECURSIVE SumTokens(_, _, _, _)
SumTokens(days, mon, sun, result) ==
    IF days = <<>> THEN result
    ELSE LET day == Head(days)
             next == IF InWeek(mon, day.date, sun)
                     THEN [result EXCEPT !.tokens_by_model =
                             SumModels(day.tokensByModel,
                                       DOMAIN day.tokensByModel, @)]
                     ELSE result
         IN  SumTokens(Tail(days), mon, sun, next)

\* lines 79-95: the aggregate of a parsed document for the week of `day`
WeeklyAggregate(data, day) ==
    LET b == CurrentWeekBounds(day)
    IN  SumTokens(data.dailyModelTokens, b[1], b[2],
                  SumActivity(data.dailyActivity, b[1], b[2], EmptyWeekly))

\* the cache test of line 70
WeeklyCacheHit(c, mtime) == mtime = c.stats_mtime /\ c.stats_data # None

\* the store without line 97: the modification time is not recorded
StoreWeeklyDataOnly(c, mtime, result) == [c EXCEPT !.stats_data = result]

\* line 97 without line 98: the time is stored, the aggregate is not
StoreWeeklyMtimeOnly(c, mtime, result) == [c EXCEPT !.stats_mtime = mtime]

\* lines 97-98
StoreWeekly(c, mtime, result) ==
    [c EXCEPT !.stats_mtime = mtime, !.stats_data = result]

\* lines 73-99, entered with the modification time read at line 66: the
\* file as it is when it is opened
ReadAndStore(c, sf, day, mtime) ==
    IF sf.kind \in {"absent", "unreadable"}
    THEN [cache |-> c, outcome |-> "default", result |-> EmptyWeekly,
          opened |-> FALSE]
    ELSE IF sf.kind = "malformed"
    THEN [cache |-> c, outcome |-> "default", result |-> EmptyWeekly,
          opened |-> TRUE]
    ELSE IF sf.kind = "nonobject"
    THEN [cache |-> c, outcome |-> "raised", result |-> None,
          opened |-> TRUE]
    ELSE LET result == WeeklyAggregate(sf.doc, day)
         IN  [cache |-> StoreWeekly(c, mtime, result),
              outcome |-> "computed", result |-> result, opened |-> TRUE]

\* get_weekly_stats(): the cache after the call and what the call did.
\* outcome: "default" (a failure path), "cached", "computed", "raised";
\* opened: open() succeeded and the file was read
GetWeeklyStats(c, sf, day) ==
    IF sf.kind = "absent"
    THEN [cache |-> c, outcome |-> "default", result |-> EmptyWeekly,
          opened |-> FALSE]
    ELSE IF WeeklyCacheHit(c, sf.mtime)
    THEN [cache |-> c, outcome |-> "cached", result |-> c.stats_data,
          opened |-> FALSE]
    ELSE ReadAndStore(c, sf, day, sf.mtime)

(***************************************************************************)
(* Texts and timestamps                                                    *)
(*  - a text is [text, len]: the characters and their number; t[:n] keeps  *)
(*    the first n characters.                                              *)
(*  - a timestamp value of an index entry is [form, secs, half]:           *)
(*      form "Z"       ISO-8601 with the literal UTC marker                *)
(*           "offset"  ISO-8601 with an explicit offset                    *)
(*           "naive"   ISO-8601 without a zone                             *)
(*           "garbage" a string fromisoformat() rejects                    *)
(*           "empty"   the empty string, "absent" the key is missing       *)
(*           "number"  a non-zero number (truthy, not a string)            *)
(*      secs, half     the instant: secs seconds and half half-seconds     *)
(***************************************************************************)
Text(t, n) == [text |-> t, len |-> n]
EmptyText == Text("", 0)
Truthy(t) == t.len > 0
Min(a, b) == IF a <= b THEN a ELSE b
Prefix(t, n) == IF t.len <= n THEN t ELSE [text |-> t.text, len |-> n]

PromptPrefixLen == 50

\* int(x) for the quotient a/b, b > 0: truncation toward zero
TruncDiv(a, b) == IF a >= 0 THEN a \div b ELSE -((-a) \div b)

\* int((t1 - t0).total_seconds()), the instants in half-seconds
TotalSecs(t0, t1) == TruncDiv((2 * t1.secs + t1.half) - (2 * t0.secs + t0.half), 2)

SecsPerHour == 3600
SecsPerMinute == 60

\* lines 177-187 with > for >=
FormatDurationStrict(total_secs) ==
    IF total_secs > SecsPerHour
    THEN LET h == total_secs \div SecsPerHour
             m == (total_secs % SecsPerHour) \div SecsPerMinute
             s == total_secs % SecsPerMinute
         IN  ToString(h) \o "h " \o ToString(m) \o "m " \o ToString(s) \o "s"
    ELSE IF total_secs > SecsPerMinute
    THEN LET m == total_secs \div SecsPerMinute
             s == total_secs % SecsPerMinute
         IN  ToString(m) \o "m " \o ToString(s) \o "s"
    ELSE ToString(total_secs) \o "s"

\* lines 177-187: the duration string of total_secs
FormatDuration(total_secs) ==
    IF total_secs >= SecsPerHour
    THEN LET h == total_secs \div SecsPerHour
             m == (total_secs % SecsPerHour) \div SecsPerMinute
             s == total_secs % SecsPerMinute
         IN  ToString(h) \o "h " \o ToString(m) \o "m " \o ToString(s) \o "s"
    ELSE IF total_secs >= SecsPerMinute
    THEN LET m == total_secs \div SecsPerMinute
             s == total_secs % SecsPerMinute
         IN  ToString(m) \o "m " \o ToString(s) \o "s"
    ELSE ToString(total_secs) \o "s"

IsAware(ts) == ts.form \in {"Z", "offset"}
IsIso(ts) == ts.form \in {"Z", "offset", "naive"}

\* lines 169-189: [raised, duration]; the default "0s" is kept when a
\* timestamp is falsy, when fromisoformat() raises ValueError and when the
\* subtraction of an aware and a naive datetime raises TypeError; .replace()
\* on a number raises AttributeError, which the except clause does not name
Duration(created, modified) ==
    IF created.form \in {"empty", "absent"} \/ modified.form \in {"empty", "absent"}
    THEN [raised |-> FALSE, duration |-> "0s"]
    ELSE IF created.form = "number"
    THEN [raised |-> TRUE, duration |-> "0s"]
    ELSE IF created.form = "garbage"
    THEN [raised |-> FALSE, duration |-> "0s"]
    ELSE IF modified.form = "number"
    THEN [raised |-> TRUE, duration |-> "0s"]
    ELSE IF modified.form = "garbage"
    THEN [raised |-> FALSE, duration |-> "0s"]
    ELSE IF IsAware(created) # IsAware(modified)
    THEN [raised |-> FALSE, duration |-> "0s"]
    ELSE [raised |-> FALSE,
          duration |-> FormatDuration(TotalSecs(created, modified))]

(***************************************************************************)
(* The session log                                                         *)
(*  a line is [line, type, isMeta, role, content, requestId, usage]:       *)
(*    line "blank"   only white space                                      *)
(*         "garbage" not JSON (json.loads raises JSONDecodeError)          *)
(*         "scalar"  JSON, but not an object (obj.get raises               *)
(*                   AttributeError)                                       *)
(*         "object"  an event record                                       *)
(*    content is [isStr, nonEmpty]; requestId "" when empty or absent;     *)
(*    role "" when the message has none                                    *)
(***************************************************************************)
ZeroUsage ==
    [input_tokens |-> 0, output_tokens |-> 0,
     cache_read_input_tokens |-> 0, cache_creation_input_tokens |-> 0]

ParseStart ==
    [seen |-> {}, msg_count |-> 0, input_tokens |-> 0, output_tokens |-> 0,
     cache_read |-> 0, cache_create |-> 0, raised |-> FALSE]

\* a user message without the isinstance test of line 213
CountsAnyContent(obj) ==
    /\ obj.type = "user"
    /\ ~obj.isMeta
    /\ obj.role = "user"
    /\ obj.content.nonEmpty

\* lines 208-214: a real user message
CountsAsMessage(obj) ==
    /\ obj.type = "user"
    /\ ~obj.isMeta
    /\ obj.role = "user"
    /\ obj.content.isStr
    /\ obj.content.nonEmpty

\* without lines 221-222: no request is taken for a duplicate
IsDuplicateNever(obj, seen) == FALSE

\* lines 221-222: an assistant event whose request was counted already
IsDuplicate(obj, seen) == obj.requestId # "" /\ obj.requestId \in seen

\* lines 198-231: one line of the log
ParseLine(l, st) ==
    IF l.line \in {"blank", "garbage"} THEN st
    ELSE IF l.line = "scalar" THEN [st EXCEPT !.raised = TRUE]
    ELSE LET st1 == IF CountsAsMessage(l)
                    THEN [st EXCEPT !.msg_count = @ + 1]
                    ELSE st
         IN  IF l.type # "assistant" THEN st1
             ELSE IF IsDuplicate(l, st1.seen) THEN st1
             ELSE [st1 EXCEPT
                     !.seen = IF l.requestId # "" THEN @ \cup {l.requestId} ELSE @,
                     !.input_tokens = @ + l.usage.input_tokens,
                     !.output_tokens = @ + l.usage.output_tokens,
                     !.cache_read = @ + l.usage.cache_read_input_tokens,
                     !.cache_create = @ + l.usage.cache_creation_input_tokens]

\* the loop of lines 197-231; an exception ends it
RECURSIVE ParseLog(_, _)
ParseLog(lines, st) ==
    IF lines = <<>> \/ st.raised THEN st
    ELSE ParseLog(Tail(lines), ParseLine(Head(lines), st))

(***************************************************************************)
(* _find_latest_session()                                                  *)
(*  an index file is [kind, entries], kind "ok", "unreadable" (open raises *)
(*  OSError), "malformed" (JSONDecodeError) or "nonobject" (JSON that is   *)
(*  not an object: index.get raises AttributeError); an entry is           *)
(*  [fileMtime, fullPath, summary, firstPrompt, sessionId, created,        *)
(*  modified]                                                              *)
(***************************************************************************)
\* os.path.isfile()
IsFile(fs, path) == path \in DOMAIN fs /\ fs[path].exists

BestStart ==
    [best_entry |-> None, best_mtime |-> 0, best_path |-> NoPath,
     raised |-> FALSE]

\* lines 121-126: one entry against the best so far
ConsiderEntry(entry, fs, best) ==
    IF entry.fileMtime > best.best_mtime /\ IsFile(fs, entry.fullPath)
    THEN [best EXCEPT !.best_mtime = entry.fileMtime,
                      !.best_entry = entry,
                      !.best_path = entry.fullPath]
    ELSE best

\* the loop of line 119
RECURSIVE ScanEntries(_, _, _)
ScanEntries(entries, fs, best) ==
    IF entries = <<>> THEN best
    ELSE ScanEntries(Tail(entries), fs, ConsiderEntry(Head(entries), fs, best))

\* the loop of line 112
RECURSIVE ScanIndexes(_, _, _)
ScanIndexes(idxs, fs, best) ==
    IF idxs = <<>> \/ best.raised THEN best
    ELSE LET index == Head(idxs)
         IN  IF index.kind \in {"unreadable", "malformed"}
             THEN ScanIndexes(Tail(idxs), fs, best)
             ELSE IF index.kind = "nonobject"
             THEN [best EXCEPT !.raised = TRUE]
             ELSE ScanIndexes(Tail(idxs), fs,
                              ScanEntries(index.entries, fs, best))

FindLatestSession(idxs, fs) == ScanIndexes(idxs, fs, BestStart)

(***************************************************************************)
(* get_session_stats()                                                     *)
(***************************************************************************)
NoSessionId == "<None>"

DefaultSession ==
    [summary |-> Text("No active session", 17), messages |-> 0,
     duration |-> "0s", input_tokens |-> 0, output_tokens |-> 0,
     cache_read |-> 0, cache_create |-> 0, session_id |-> NoSessionId]

\* the cache test without line 159: the path is not compared
SessionCacheHitByMtime(c, path, mtime) ==
    mtime = c.session_mtime /\ c.session_data # None

\* the cache test of lines 158-162
SessionCacheHit(c, path, mtime) ==
    /\ path = c.session_path
    /\ mtime = c.session_mtime
    /\ c.session_data # None

\* line 165
Summary(entry) ==
    IF Truthy(entry.summary) THEN entry.summary
    ELSE Prefix(entry.firstPrompt, PromptPrefixLen)

\* lines 165-235: the record of the selected session, no cache involved
ComputeSession(entry, file) ==
    LET dur == Duration(entry.created, entry.modified)
        st == IF file.readable THEN ParseLog(file.log, ParseStart)
              ELSE ParseStart
    IN  [raised |-> dur.raised \/ st.raised,
         result |-> [summary |-> Summary(entry),
                     messages |-> st.msg_count,
                     duration |-> dur.duration,
                     input_tokens |-> st.input_tokens,
                     output_tokens |-> st.output_tokens,
                     cache_read |-> st.cache_read,
                     cache_create |-> st.cache_create,
                     session_id |-> entry.sessionId]]

\* lines 237-239
StoreSession(c, path, mtime, result) ==
    [c EXCEPT !.session_path = path, !.session_mtime = mtime,
              !.session_data = result]

\* get_session_stats(): the cache after the call and what the call did.
\* outcome: "default", "cached", "computed", "raised"; path: the session
\* file selected; parsed: the session log was opened; recorded: the key the
\* cache held when the call began
GetSessionStats(c, idxs, fs) ==
    LET sel == FindLatestSession(idxs, fs)
        recorded == [path |-> c.session_path, mtime |-> c.session_mtime,
                     valid |-> c.session_data # None]
        Out(cc, outcome, result, path, parsed) ==
            [cache |-> cc, outcome |-> outcome, result |-> result,
             path |-> path, parsed |-> parsed, recorded |-> recorded]
    IN  IF sel.raised
        THEN Out(c, "raised", None, NoPath, FALSE)
        ELSE IF sel.best_entry = None
        THEN Out(c, "default", DefaultSession, NoPath, FALSE)
        ELSE LET path == sel.best_path
                 mtime == fs[path].mtime
             IN  IF SessionCacheHit(c, path, mtime)
                 THEN Out(c, "cached", c.session_data, path, FALSE)
                 ELSE LET r == ComputeSession(sel.best_entry, fs[path])
                          d == Duration(sel.best_entry.created,
                                        sel.best_entry.modified)
                      IN  IF r.raised
                          THEN Out(c, "raised", None, path, ~d.raised)
                          ELSE Out(StoreSession(c, path, mtime, r.result),
                                   "computed", r.result, path, TRUE)

(***************************************************************************)
(* The main-thread handlers of the application                             *)
(***************************************************************************)
NotCalled ==
    [outcome |-> "notcalled", result |-> None, opened |-> FALSE, seq |-> 0]
NotCalledS ==
    [outcome |-> "notcalled", result |-> None, path |-> NoPath,
     parsed |-> FALSE,
     recorded |-> [path |-> NoPath, mtime |-> 0, valid |-> FALSE]]

Strip(r) == [x \in DOMAIN r \ {"cache"} |-> r[x]]

\* the observation of one more get_weekly_stats() call
Observed(w) == Strip(w) @@ [seq |-> 1 - obsW.seq]

OneMoreQuietCall == quietCalls' = IF quietCalls = 0 THEN 1 ELSE 2

\* _build_menu(), lines 36-37: both aggregations, on cache c; an exception
\* of the first call leaves the second one out
BuildMenu(c) ==
    LET w == GetWeeklyStats(c, statsFile, today)
        s == GetSessionStats(w.cache, indexes, files)
    IN  IF w.outcome = "raised"
        THEN [cache |-> w.cache, w |-> w, s |-> NotCalledS]
        ELSE [cache |-> s.cache, w |-> w, s |-> Strip(s)]

\* the invalidation without lines 167 and 169: only the times are reset
InvalidateTimesOnly(c) == [c EXCEPT !.stats_mtime = 0, !.session_mtime = 0]

\* _refresh(), lines 166-169
Invalidate(c) ==
    [c EXCEPT !.stats_mtime = 0, !.stats_data = None,
              !.session_mtime = 0, !.session_data = None]

Environment == UNCHANGED <<today, statsFile, indexes, files>>

\* the main thread is in no get_weekly_stats() call
Idle ==
    [pc |-> "idle", handler |-> "", mtime |-> 0, doc |-> None, raced |-> FALSE,
     ordered |-> TRUE]

\* usage._cache as the module sets it, lines 13-19
InitialCache ==
    [stats_mtime |-> 0, stats_data |-> None, session_path |-> NoPath,
     session_mtime |-> 0, session_data |-> None]

\* _auto_refresh(): the 30 s timer
AutoRefresh ==
    LET b == BuildMenu(cache)
    IN  /\ cache' = b.cache
        /\ obsW' = Observed(b.w)
        /\ obsS' = b.s
        /\ lastOp' = "AutoRefresh"
        /\ OneMoreQuietCall
        /\ Environment
        /\ UNCHANGED <<relayVars, call>>

\* _refresh(): "Refresh Now"
Refresh ==
    LET b == BuildMenu(Invalidate(cache))
    IN  /\ cache' = b.cache
        /\ obsW' = Observed(b.w)
        /\ obsS' = b.s
        /\ lastOp' = "Refresh"
        /\ OneMoreQuietCall
        /\ Environment
        /\ UNCHANGED <<relayVars, call>>

(***************************************************************************)
(* The stats document and its writer (Claude Code itself, outside this     *)
(* program).  A write stamps a modification time other than the one it     *)
(* replaces; the document of a file that cannot be parsed is EmptyDoc.     *)
(***************************************************************************)
RecordDays == {6, 7, 13, 14, 20, 21}

OpusId == <<OpusKey>>
OpusRegionalId == <<"us.", OpusKey>>
OtherId == <<"some-other-model">>

DayActivity(d) ==
    [date |-> IsoFormat(d), messageCount |-> d, sessionCount |-> 1,
     toolCallCount |-> 2 * d]

DayTokens(d) ==
    [date |-> IsoFormat(d),
     tokensByModel |-> (OpusId :> d) @@ (OpusRegionalId :> 1) @@ (OtherId :> 2)]

RECURSIVE Ascending(_)
Ascending(S) ==
    IF S = {} THEN <<>>
    ELSE LET m == CHOOSE x \in S : \A y \in S : x <= y
         IN  <<m>> \o Ascending(S \ {m})

DocOf(S) ==
    LET days == Ascending(S)
    IN  [dailyActivity |-> [i \in DOMAIN days |-> DayActivity(days[i])],
         dailyModelTokens |-> [i \in DOMAIN days |-> DayTokens(days[i])]]

EmptyDoc == DocOf({})

Docs == {DocOf(S) : S \in {T \in SUBSET RecordDays : Cardinality(T) <= MaxRecords}}

AbsentStats == [kind |-> "absent", mtime |-> 0, doc |-> EmptyDoc]

StatsFiles ==
    {[kind |-> k, mtime |-> m, doc |-> EmptyDoc] :
        k \in {"unreadable", "malformed", "nonobject"}, m \in Mtimes}
    \cup {[kind |-> "ok", mtime |-> m, doc |-> d] : m \in Mtimes, d \in Docs}

WriteStats ==
    /\ \E f \in StatsFiles :
          /\ statsFile.kind # "absent" => f.mtime # statsFile.mtime
          /\ statsFile' = f
    /\ quietCalls' = 0
    /\ lastOp' = "Env"
    /\ UNCHANGED <<today, indexes, files, cache, obsW, obsS>>
    /\ UNCHANGED <<relayVars, call>>

DeleteStats ==
    /\ statsFile.kind # "absent"
    /\ statsFile' = AbsentStats
    /\ quietCalls' = 0
    /\ lastOp' = "Env"
    /\ UNCHANGED <<today, indexes, files, cache, obsW, obsS>>
    /\ UNCHANGED <<relayVars, call>>

\* midnight
ClockAdvance ==
    /\ today < LastDay
    /\ today' = today + 1
    /\ lastOp' = "Env"
    /\ UNCHANGED <<statsFile, indexes, files, cache, obsW, obsS, quietCalls>>
    /\ UNCHANGED <<relayVars, call>>

(***************************************************************************)
(* The relay as __init__ leaves it, lines 28 and 201-209: the socket path  *)
(* unlinked, the thread started and not yet run.  The telemetry            *)
(* specifications leave it there.                                          *)
(***************************************************************************)
MaxConns == 2
ConnIds == 1..MaxConns

NoConn ==
    [st |-> "new", toSend |-> 0, inflight |-> 0, closed |-> FALSE, sent |-> 0,
     after |-> FALSE]

RelayAtRest ==
    /\ sock = [state |-> "absent", backlog |-> <<>>]
    /\ relay = [pc |-> "bind", conn |-> 0, data |-> 0, fails |-> 0]
    /\ conns = [c \in ConnIds |-> NoConn]
    /\ timers = <<>>
    /\ dispatched = [c \in ConnIds |-> 0]
    /\ lastAlert = FALSE
    /\ inst = [peer |-> "off", start |-> "returned"]

NoSessions ==
    /\ indexes = <<>>
    /\ files = <<>>

(***************************************************************************)
(* Spec: the stats document, its writer and the clock against the weekly   *)
(* cache.  No session exists.                                              *)
(***************************************************************************)
Init ==
    /\ today \in FirstDay..LastDay
    /\ statsFile \in StatsFiles \cup {AbsentStats}
    /\ NoSessions
    /\ cache = InitialCache
    /\ obsW = NotCalled
    /\ obsS = NotCalledS
    /\ lastOp = "Env"
    /\ quietCalls = 0
    /\ call = Idle
    /\ RelayAtRest

Next ==
    \/ AutoRefresh
    \/ Refresh
    \/ WriteStats
    \/ DeleteStats
    \/ ClockAdvance

Spec == Init /\ [][Next]_vars

(***************************************************************************)
(* The week of a date and the aggregate of a document, stated on dates     *)
(* rather than on strings.                                                 *)
(***************************************************************************)
Monday(day) == CHOOSE m \in (day - 6)..day : m % 7 = 0
Sunday(day) == Monday(day) + 6
ParseIso(str) == 10 * str[1] + str[2]
DatedInWeek(rec, day) ==
    Monday(day) <= ParseIso(rec.date) /\ ParseIso(rec.date) <= Sunday(day)

\* the sum of f over S, S a subset of f's domain
RECURSIVE SumOf(_, _)
SumOf(f, S) ==
    IF S = {} THEN 0
    ELSE LET x == CHOOSE y \in S : TRUE
         IN  f[x] + SumOf(f, S \ {x})

WeekTotals(doc, day) ==
    LET act == doc.dailyActivity
        tok == doc.dailyModelTokens
        A == {i \in DOMAIN act : DatedInWeek(act[i], day)}
        T == {i \in DOMAIN tok : DatedInWeek(tok[i], day)}
        P == {<<i, m>> \in T \X {OpusId, OpusRegionalId, OtherId} :
                 m \in DOMAIN tok[i].tokensByModel}
        names == {FriendlyModelName(p[2]) : p \in P}
    IN  [messages |-> SumOf([i \in A |-> act[i].messageCount], A),
         sessions |-> SumOf([i \in A |-> act[i].sessionCount], A),
         tool_calls |-> SumOf([i \in A |-> act[i].toolCallCount], A),
         tokens_by_model |->
             [n \in names |->
                 LET Pn == {p \in P : FriendlyModelName(p[2]) = n}
                 IN  SumOf([p \in Pn |-> tok[p[1]].tokensByModel[p[2]]], Pn)]]

AfterCall == lastOp \in {"AutoRefresh", "Refresh"}
ReturnedAggregate(o) == o.outcome \in {"computed", "cached"}

\* C1: every aggregate get_weekly_stats() returns, computed or served from
\* the cache, is the total of exactly the records of the document dated in
\* [monday(now), sunday(now)], now the time of that call.
C1_WeeklyTotalsOfCurrentWeek ==
    AfterCall /\ ReturnedAggregate(obsW)
        => obsW.result = WeekTotals(statsFile.doc, today)

\* C2, as stated: with the stats file in place and neither written nor
\* touched since the previous call, a call returns what the previous call
\* returned and does not open the file.
C2_UnchangedFileNeverReopened ==
    [][(/\ obsW'.seq # obsW.seq
        /\ obsW.outcome # "notcalled"
        /\ quietCalls >= 1
        /\ statsFile.kind # "absent")
          => ~obsW'.opened /\ obsW'.result = obsW.result]_vars

\* C2, amended: if moreover the previous call returned an aggregate of the
\* file (the file could be read and parsed) and the call is not the one
\* _refresh makes after invalidating the cache, it returns the same
\* aggregate and does not open the file.
C2_UnchangedParsedFileServedFromCache ==
    [][(/\ obsW'.seq # obsW.seq
        /\ ReturnedAggregate(obsW)
        /\ quietCalls >= 1
        /\ statsFile.kind # "absent"
        /\ lastOp' # "Refresh")
          => /\ ~obsW'.opened
             /\ obsW'.outcome = "cached"
             /\ obsW'.result = obsW.result]_vars

C2_Witness ==
    /\ lastOp = "AutoRefresh"
    /\ quietCalls = 2
    /\ obsW.outcome = "cached"
    /\ ~obsW.opened
    /\ statsFile.kind = "ok"
    /\ obsW.result.messages > 0

(***************************************************************************)
(* Sessions: two projects, one session each.  Claude Code (outside this    *)
(* program) appends to a session log, which stamps a new modification      *)
(* time, and rewrites a project's index with a new fileMtime.  Version m   *)
(* of a log holds m + 1 events: a user message each in project A's, an     *)
(* assistant reply each in project B's.                                    *)
(***************************************************************************)
PathA == "/projects/a/s1.jsonl"
PathB == "/projects/b/s2.jsonl"
Paths == {PathA, PathB}

Aware(secs) == [form |-> "Z", secs |-> secs, half |-> 0]

UserLine ==
    [line |-> "object", type |-> "user", isMeta |-> FALSE, role |-> "user",
     content |-> [isStr |-> TRUE, nonEmpty |-> TRUE], requestId |-> "",
     usage |-> ZeroUsage]

AssistantLine(req, u) ==
    [line |-> "object", type |-> "assistant", isMeta |-> FALSE,
     role |-> "assistant", content |-> [isStr |-> FALSE, nonEmpty |-> TRUE],
     requestId |-> req, usage |-> u]

UsageOne ==
    [input_tokens |-> 1, output_tokens |-> 2,
     cache_read_input_tokens |-> 4, cache_creation_input_tokens |-> 8]
UsageTwo ==
    [input_tokens |-> 16, output_tokens |-> 32,
     cache_read_input_tokens |-> 64, cache_creation_input_tokens |-> 128]

VersionLog(path, m) ==
    [i \in 1..(m + 1) |->
        IF path = PathA THEN UserLine ELSE AssistantLine("", UsageOne)]

NoFile == [exists |-> FALSE, readable |-> FALSE, mtime |-> 0, log |-> <<>>]
FileVersion(path, m) ==
    [exists |-> TRUE, readable |-> TRUE, mtime |-> m, log |-> VersionLog(path, m)]

EntryFor(path, fm) ==
    [fileMtime |-> fm, fullPath |-> path,
     summary |-> IF path = PathA THEN Text("Fix the parser", 14) ELSE EmptyText,
     firstPrompt |-> Text("Please refactor the aggregation module and keep", 60),
     sessionId |-> IF path = PathA THEN "sid-a" ELSE "sid-b",
     created |-> Aware(0), modified |-> Aware(125)]

OkIndex(entries) == [kind |-> "ok", entries |-> entries]

\* Claude Code appends to a session log (or creates it)
WriteSession ==
    /\ \E p \in Paths, m \in Mtimes :
          /\ files[p].exists => m # files[p].mtime
          /\ files' = [files EXCEPT ![p] = FileVersion(p, m)]
    /\ lastOp' = "Env"
    /\ UNCHANGED <<today, statsFile, indexes, cache, obsW, obsS, quietCalls>>
    /\ UNCHANGED <<relayVars, call>>

DeleteSession ==
    /\ \E p \in Paths :
          /\ files[p].exists
          /\ files' = [files EXCEPT ![p] = NoFile]
    /\ lastOp' = "Env"
    /\ UNCHANGED <<today, statsFile, indexes, cache, obsW, obsS, quietCalls>>
    /\ UNCHANGED <<relayVars, call>>

\* Claude Code rewrites a project's index with another fileMtime
UpdateIndex ==
    /\ \E i \in DOMAIN indexes, m \in Mtimes :
          /\ indexes[i].kind = "ok"
          /\ indexes[i].entries # <<>>
          /\ indexes[i].entries[1].fileMtime # m
          /\ indexes' = [indexes EXCEPT ![i].entries[1].fileMtime = m]
    /\ lastOp' = "Env"
    /\ UNCHANGED <<today, statsFile, files, cache, obsW, obsS, quietCalls>>
    /\ UNCHANGED <<relayVars, call>>

(***************************************************************************)
(* SessionSpec: the two sessions, their indexes and the session cache,     *)
(* with a stats document that stays as it is.                              *)
(***************************************************************************)
SessionInit ==
    /\ today = FirstDay
    /\ statsFile \in {AbsentStats, [kind |-> "ok", mtime |-> 0, doc |-> DocOf({13})]}
    /\ \E a, b \in Mtimes :
          indexes = <<OkIndex(<<EntryFor(PathA, a)>>), OkIndex(<<EntryFor(PathB, b)>>)>>
    /\ files \in [Paths -> {NoFile}]
                \cup {[p \in Paths |-> FileVersion(p, m[p])] : m \in [Paths -> Mtimes]}
    /\ cache = InitialCache
    /\ obsW = NotCalled
    /\ obsS = NotCalledS
    /\ lastOp = "Env"
    /\ quietCalls = 0
    /\ call = Idle
    /\ RelayAtRest

SessionNext ==
    \/ AutoRefresh
    \/ Refresh
    \/ WriteSession
    \/ DeleteSession
    \/ UpdateIndex

SessionSpec == SessionInit /\ [][SessionNext]_vars

\* the lines of a log of one type
LinesOf(log, type) == {i \in DOMAIN log : log[i].type = type}

Selected == FindLatestSession(indexes, files)

\* C3: get_session_stats() serves the cache only when the session file it
\* selects is the one recorded at the last computation, with the recorded
\* modification time; when the selected path is not the recorded one, the
\* log is parsed again and the record returned is that of the session
\* selected now.
C3_SessionCacheKeyedByPath ==
    AfterCall /\ obsS.outcome # "notcalled" =>
        /\ obsS.outcome = "cached" =>
              /\ obsS.recorded.valid
              /\ obsS.path = obsS.recorded.path
              /\ files[obsS.path].mtime = obsS.recorded.mtime
        /\ obsS.path # NoPath /\ obsS.path # obsS.recorded.path =>
              /\ obsS.outcome = "computed"
              /\ obsS.parsed
              /\ obsS.path = Selected.best_path
              /\ obsS.result.session_id = Selected.best_entry.sessionId
              /\ obsS.result.messages
                    = Cardinality(LinesOf(files[obsS.path].log, "user"))
              /\ obsS.result.input_tokens
                    = Cardinality(LinesOf(files[obsS.path].log, "assistant"))
                         * UsageOne.input_tokens

\* the session selected changed from A to B, and B's file carries the
\* modification time the cache recorded for A's
C3_Witness ==
    /\ lastOp = "AutoRefresh"
    /\ obsS.outcome = "computed"
    /\ obsS.recorded.valid
    /\ obsS.recorded.path = PathA
    /\ obsS.path = PathB
    /\ files[PathB].mtime = obsS.recorded.mtime

\* C4: the calls _refresh makes after invalidating the caches are never
\* served from the cache: each goes to the disk, whatever the modification
\* times of the files are.
C4_RefreshNeverServedFromCache ==
    lastOp = "Refresh" =>
        /\ obsW.outcome # "cached"
        /\ statsFile.kind = "ok" => obsW.outcome = "computed" /\ obsW.opened
        /\ obsS.outcome # "cached"
        /\ Selected.best_entry # None => obsS.outcome = "computed" /\ obsS.parsed

\* a refresh with both files unchanged since the cache was filled, their
\* modification times 0
C4_Witness ==
    /\ lastOp = "Refresh"
    /\ statsFile.kind = "ok" /\ statsFile.mtime = 0
    /\ quietCalls = 2
    /\ obsW.outcome = "computed"
    /\ obsS.outcome = "computed"
    /\ obsS.recorded.path = obsS.path
    /\ files[obsS.path].mtime = 0

(***************************************************************************)
(* LogSpec: get_session_stats() on every session log of at most MaxLogLen  *)
(* lines drawn from LogLines.  One project, one session, the log its file. *)
(***************************************************************************)
MaxLogLen == 3

UserLineWith(isMeta, role, isStr, nonEmpty) ==
    [UserLine EXCEPT !.isMeta = isMeta, !.role = role,
                     !.content = [isStr |-> isStr, nonEmpty |-> nonEmpty]]

OtherLine == [UserLine EXCEPT !.type = "system"]
GarbageLine == [UserLine EXCEPT !.line = "garbage"]
ScalarLine == [UserLine EXCEPT !.line = "scalar"]

LogLines ==
    {UserLine,
     UserLineWith(TRUE, "user", TRUE, TRUE),
     UserLineWith(FALSE, "", TRUE, TRUE),
     UserLineWith(FALSE, "user", TRUE, FALSE),
     UserLineWith(FALSE, "user", FALSE, TRUE),
     OtherLine, GarbageLine, ScalarLine}
    \cup {AssistantLine(r, u) : r \in {"", "req-1", "req-2"}, u \in {UsageOne, UsageTwo}}

Logs == UNION {[1..n -> LogLines] : n \in 0..MaxLogLen}

OneSession(entry, file) ==
    /\ indexes = <<OkIndex(<<entry>>)>>
    /\ files = [p \in Paths |-> IF p = entry.fullPath THEN file ELSE NoFile]

Fresh ==
    /\ today = FirstDay
    /\ statsFile = AbsentStats
    /\ cache = InitialCache
    /\ obsW = NotCalled
    /\ obsS = NotCalledS
    /\ lastOp = "Env"
    /\ quietCalls = 0
    /\ call = Idle
    /\ RelayAtRest

LogInit ==
    /\ \E log \in Logs :
          OneSession(EntryFor(PathA, 1),
                     [exists |-> TRUE, readable |-> TRUE, mtime |-> 1, log |-> log])
    /\ Fresh

Handlers ==
    \/ AutoRefresh
    \/ Refresh

LogSpec == LogInit /\ [][Handlers]_vars

TheLog == files[PathA].log

IsEvent(l, type) == l.line = "object" /\ l.type = type

\* the assistant events that count: the first of each non-empty requestId,
\* and every one whose requestId is empty
Counted(log) ==
    {i \in DOMAIN log :
        /\ IsEvent(log[i], "assistant")
        /\ \/ log[i].requestId = ""
           \/ ~\E j \in 1..(i - 1) :
                 IsEvent(log[j], "assistant") /\ log[j].requestId = log[i].requestId}

UsageTotal(log, field) ==
    SumOf([i \in Counted(log) |-> log[i].usage[field]], Counted(log))

Returned(o) == AfterCall /\ o.outcome \in {"computed", "cached"}

\* C5: each of the four token totals of get_session_stats() is the sum of
\* the usage field over the first assistant event of every non-empty
\* requestId and over every assistant event whose requestId is empty.
C5_TokensCountedOncePerRequest ==
    Returned(obsS) =>
        /\ obsS.result.input_tokens = UsageTotal(TheLog, "input_tokens")
        /\ obsS.result.output_tokens = UsageTotal(TheLog, "output_tokens")
        /\ obsS.result.cache_read = UsageTotal(TheLog, "cache_read_input_tokens")
        /\ obsS.result.cache_create
              = UsageTotal(TheLog, "cache_creation_input_tokens")

\* one request logged twice with different usage, and two identical events
\* without a requestId in another log
C5_Witness ==
    /\ Returned(obsS)
    /\ TheLog = <<AssistantLine("req-1", UsageOne), AssistantLine("req-1", UsageTwo),
                  AssistantLine("", UsageTwo)>>
    /\ obsS.result.input_tokens = UsageOne.input_tokens + UsageTwo.input_tokens

\* C6, as stated: the message count is the number of user events that are
\* not meta events and whose content is a non-empty string.
C6_MessagesAreNonMetaStringUserEvents ==
    Returned(obsS) =>
        obsS.result.messages =
            Cardinality({i \in DOMAIN TheLog :
                /\ IsEvent(TheLog[i], "user")
                /\ ~TheLog[i].isMeta
                /\ TheLog[i].content.isStr
                /\ TheLog[i].content.nonEmpty})

\* C6, amended: ... and whose message has the role "user".
C6_MessagesAreNonMetaStringUserRoleEvents ==
    Returned(obsS) =>
        obsS.result.messages =
            Cardinality({i \in DOMAIN TheLog :
                /\ IsEvent(TheLog[i], "user")
                /\ ~TheLog[i].isMeta
                /\ TheLog[i].role = "user"
                /\ TheLog[i].content.isStr
                /\ TheLog[i].content.nonEmpty})

\* a message, a tool result (structured content) and an empty string
C6_Witness ==
    /\ Returned(obsS)
    /\ TheLog = <<UserLine, UserLineWith(FALSE, "user", FALSE, TRUE),
                  UserLineWith(FALSE, "user", TRUE, FALSE)>>
    /\ obsS.result.messages = 1

(***************************************************************************)
(* SelectSpec: _find_latest_session() on every pair of project indexes     *)
(* that hold at most MaxEntries entries together, each index parsed or     *)
(* malformed, each session file present or not.                            *)
(***************************************************************************)
MaxEntries == 2

Entries == {EntryFor(p, m) : p \in Paths, m \in Mtimes}

EntryLists == UNION {[1..n -> Entries] : n \in 0..MaxEntries}

MalformedIndex == [kind |-> "malformed", entries |-> <<>>]

IndexFiles == {OkIndex(es) : es \in EntryLists} \cup {MalformedIndex}

SelectInit ==
    /\ indexes \in {<<i1, i2>> \in IndexFiles \X IndexFiles :
                        Len(i1.entries) + Len(i2.entries) <= MaxEntries}
    /\ files \in [Paths -> {NoFile}]
                \cup {[p \in Paths |-> IF p \in S THEN FileVersion(p, 1) ELSE NoFile] :
                         S \in SUBSET Paths}
    /\ Fresh

SelectSpec == SelectInit /\ [][Handlers]_vars

\* every entry of every parsed index, in the order of enumeration
RECURSIVE AllEntries(_)
AllEntries(idxs) ==
    IF idxs = <<>> THEN <<>>
    ELSE (IF Head(idxs).kind = "ok" THEN Head(idxs).entries ELSE <<>>)
            \o AllEntries(Tail(idxs))

Live(es) == {i \in DOMAIN es : IsFile(files, es[i].fullPath)}

\* the first entry of the greatest fileMtime among those whose file exists
Latest(es) ==
    CHOOSE i \in Live(es) :
        /\ \A j \in Live(es) : es[j].fileMtime <= es[i].fileMtime
        /\ \A j \in Live(es) : es[j].fileMtime = es[i].fileMtime => i <= j

SessionCalled == AfterCall /\ obsS.outcome \in {"default", "computed", "cached"}

\* C7: the session selected is the first entry of the greatest fileMtime
\* among the entries whose file exists, and get_session_stats() returns the
\* default record exactly when no entry references an existing file.
C7_LatestLiveEntrySelected ==
    SessionCalled =>
        LET es == AllEntries(indexes)
        IN  /\ obsS.outcome = "default" <=> Live(es) = {}
            /\ obsS.outcome = "default" => obsS.result = DefaultSession
            /\ Live(es) # {} =>
                  /\ obsS.path = es[Latest(es)].fullPath
                  /\ obsS.result.session_id = es[Latest(es)].sessionId

(***************************************************************************)
(* DurationSpec: get_session_stats() on every pair of timestamps of the    *)
(* selected entry: created at instant 0, modified from MaxBack seconds     *)
(* before to MaxSpan seconds after it (and some longer spans), on the      *)
(* second or half a second later, in every pair of forms.                  *)
(***************************************************************************)
MaxBack == 90
MaxSpan == 3725
LongSpans == {7199, 7200, 7325, 86399, 86400, 90061}

Forms == {"Z", "offset", "naive", "garbage", "empty", "absent", "number"}

Stamp(form, secs, half) == [form |-> form, secs |-> secs, half |-> half]

DurationInit ==
    /\ \E f0 \in Forms, f1 \in Forms, half \in {0, 1},
          secs \in (-MaxBack..MaxSpan) \cup LongSpans :
          /\ (f0 # "Z" \/ f1 # "Z") => secs \in {-1, 45}
          /\ OneSession([EntryFor(PathA, 1) EXCEPT
                            !.created = Stamp(f0, 0, 0),
                            !.modified = Stamp(f1, secs, half)],
                        FileVersion(PathA, 1))
    /\ Fresh

DurationSpec == DurationInit /\ [][Handlers]_vars

TheEntry == indexes[1].entries[1]

WellFormedPair == IsAware(TheEntry.created) /\ IsAware(TheEntry.modified)

\* the whole number of seconds from created to modified
WholeSeconds == TotalSecs(TheEntry.created, TheEntry.modified)

Hms(h, m, s) == ToString(h) \o "h " \o ToString(m) \o "m " \o ToString(s) \o "s"
Ms(m, s) == ToString(m) \o "m " \o ToString(s) \o "s"
Sec(s) == ToString(s) \o "s"

\* C8, as stated: "{h}h {m}m {s}s" from 3600 seconds, "{m}m {s}s" from 60,
\* "{s}s" otherwise, s = d mod 60.
C8_DurationInThreeForms ==
    Returned(obsS) /\ WellFormedPair =>
        LET d == WholeSeconds
        IN  obsS.result.duration =
                IF d >= 3600 THEN Hms(d \div 3600, (d % 3600) \div 60, d % 60)
                ELSE IF d >= 60 THEN Ms(d \div 60, d % 60)
                ELSE Sec(d % 60)

\* C8, amended: below 60 seconds the string is "{d}s", d itself in signed
\* decimal (so "{s}s" from 0 to 59, and "-90s" when modified is 90 seconds
\* before created).
C8_DurationOfSignedSeconds ==
    Returned(obsS) /\ WellFormedPair =>
        LET d == WholeSeconds
        IN  /\ obsS.result.duration =
                  IF d >= 3600 THEN Hms(d \div 3600, (d % 3600) \div 60, d % 60)
                  ELSE IF d >= 60 THEN Ms(d \div 60, d % 60)
                  ELSE Sec(d)
            /\ d = 45 => obsS.result.duration = "45s"
            /\ d = 125 => obsS.result.duration = "2m 5s"
            /\ d = 3725 => obsS.result.duration = "1h 2m 5s"
            /\ d = 59 => obsS.result.duration = "59s"
            /\ d = 60 => obsS.result.duration = "1m 0s"
            /\ d = 3599 => obsS.result.duration = "59m 59s"
            /\ d = 3600 => obsS.result.duration = "1h 0m 0s"
            /\ d = -90 => obsS.result.duration = "-90s"

C8_Witness ==
    /\ Returned(obsS)
    /\ WellFormedPair
    /\ WholeSeconds = 3725
    /\ TheEntry.modified.half = 1
    /\ obsS.result.duration = "1h 2m 5s"

(***************************************************************************)
(* The notification relay: _ipc_loop() on its thread, the clients of the   *)
(* socket (hook_notify.main() or any other peer), and _on_ipc_message() on *)
(* the main thread.  A payload is counted in chunks of bytes; a peer may   *)
(* close at any point of its sendall(); relay.fails counts the failures    *)
(* swallowed, up to MaxFails, and conns[c].after tells that c was accepted *)
(* after one.  rumps.Timer(f, 0).start() is taken as the code documents   *)
(* it at lines 231 and 237: one more timer that the main thread fires,     *)
(* and that f stops at its first call.                                     *)
(***************************************************************************)
MaxChunks == 2
MaxFails == 2
ListenBacklog == 5

Remove(q, i) == [j \in 1..(Len(q) - 1) |-> IF j < i THEN q[j] ELSE q[j + 1]]

Listening == [pc |-> "accept", conn |-> 0, data |-> 0, fails |-> relay.fails]

\* the except clause as a break out of the loop
Terminate == [Listening EXCEPT !.pc = "dead", !.fails = @ + 1]

\* the except clause of lines 233-234, one more failure swallowed
Continue == [Listening EXCEPT !.fails = @ + 1]

\* line 230 as no test at all
HasDataAlways(data) == TRUE

\* line 230
HasData(data) == data > 0

TelemetryUnchanged ==
    UNCHANGED <<today, statsFile, indexes, files, cache, obsW, obsS,
                quietCalls, call, lastOp>>

\* another process binds the path between line 201 and line 214
ForeignBind ==
    /\ relay.pc = "bind"
    /\ sock.state = "absent"
    /\ sock' = [sock EXCEPT !.state = "foreign"]
    /\ UNCHANGED <<relay, conns, timers, dispatched, lastAlert, inst>>
    /\ TelemetryUnchanged

\* lines 213-217: socket, bind, listen, chmod; bind raises outside the try
RelayBind ==
    /\ relay.pc = "bind"
    /\ IF sock.state = "absent"
       THEN /\ sock' = [sock EXCEPT !.state = "listening"]
            /\ relay' = [relay EXCEPT !.pc = "accept"]
       ELSE /\ relay' = [relay EXCEPT !.pc = "dead"]
            /\ UNCHANGED sock
    /\ UNCHANGED <<conns, timers, dispatched, lastAlert, inst>>
    /\ TelemetryUnchanged

\* hook_notify.main(), line 27: connect, with n chunks of payload to send
ClientConnect(c, n) ==
    /\ conns[c].st = "new"
    /\ sock.state = "listening"
    /\ Len(sock.backlog) < ListenBacklog
    /\ conns' = [conns EXCEPT ![c].st = "queued", ![c].toSend = n]
    /\ sock' = [sock EXCEPT !.backlog = Append(@, c)]
    /\ UNCHANGED <<relay, timers, dispatched, lastAlert, inst>>
    /\ TelemetryUnchanged

\* hook_notify.main(), line 28: sendall, one chunk at a time
ClientSend(c) ==
    /\ conns[c].st \in {"queued", "open"}
    /\ ~conns[c].closed
    /\ conns[c].toSend > 0
    /\ conns' = [conns EXCEPT ![c].toSend = @ - 1,
                              ![c].inflight = @ + 1,
                              ![c].sent = @ + 1]
    /\ UNCHANGED <<sock, relay, timers, dispatched, lastAlert, inst>>
    /\ TelemetryUnchanged

\* hook_notify.main(), line 29: close (or the end of the peer's process)
ClientClose(c) ==
    /\ conns[c].st \in {"queued", "open", "failed"}
    /\ ~conns[c].closed
    /\ conns' = [conns EXCEPT ![c].toSend = 0, ![c].closed = TRUE]
    /\ UNCHANGED <<sock, relay, timers, dispatched, lastAlert, inst>>
    /\ TelemetryUnchanged

\* lines 221-222 entered only once the main thread has fired every timer
RelayAcceptWhenIdle ==
    /\ relay.pc = "accept"
    /\ timers = <<>>
    /\ sock.backlog # <<>>
    /\ LET c == Head(sock.backlog)
       IN  /\ conns' = [conns EXCEPT ![c].st = "open", ![c].after = relay.fails > 0]
           /\ relay' = [relay EXCEPT !.pc = "recv", !.conn = c, !.data = 0]
    /\ sock' = [sock EXCEPT !.backlog = Tail(@)]
    /\ UNCHANGED <<timers, dispatched, lastAlert, inst>>
    /\ TelemetryUnchanged

\* line 221 reached again while line 224 is still reading a connection
RelayAcceptAnytime ==
    /\ relay.pc \in {"accept", "recv"}
    /\ sock.backlog # <<>>
    /\ LET c == Head(sock.backlog)
       IN  /\ conns' = [conns EXCEPT ![c].st = "open", ![c].after = relay.fails > 0]
           /\ relay' = [relay EXCEPT !.pc = "recv", !.conn = c, !.data = 0]
    /\ sock' = [sock EXCEPT !.backlog = Tail(@)]
    /\ UNCHANGED <<timers, dispatched, lastAlert, inst>>
    /\ TelemetryUnchanged

\* lines 221-222: accept returns the oldest connection
RelayAccept ==
    /\ relay.pc = "accept"
    /\ sock.backlog # <<>>
    /\ LET c == Head(sock.backlog)
       IN  /\ conns' = [conns EXCEPT ![c].st = "open", ![c].after = relay.fails > 0]
           /\ relay' = [relay EXCEPT !.pc = "recv", !.conn = c, !.data = 0]
    /\ sock' = [sock EXCEPT !.backlog = Tail(@)]
    /\ UNCHANGED <<timers, dispatched, lastAlert, inst>>
    /\ TelemetryUnchanged

\* line 221 raises: with the oldest connection aborted, or with none lost
RelayAcceptError ==
    /\ relay.pc = "accept"
    /\ relay.fails < MaxFails
    /\ relay' = Continue
    /\ \/ /\ sock.backlog # <<>>
          /\ conns' = [conns EXCEPT ![Head(sock.backlog)].st = "failed"]
          /\ sock' = [sock EXCEPT !.backlog = Tail(@)]
       \/ UNCHANGED <<conns, sock>>
    /\ UNCHANGED <<timers, dispatched, lastAlert, inst>>
    /\ TelemetryUnchanged

\* lines 224-227: recv returns some of the bytes in flight
RelayRecvChunk ==
    /\ relay.pc = "recv"
    /\ \E k \in 1..conns[relay.conn].inflight :
          /\ conns' = [conns EXCEPT ![relay.conn].inflight = @ - k]
          /\ relay' = [relay EXCEPT !.data = @ + k]
    /\ UNCHANGED <<sock, timers, dispatched, lastAlert, inst>>
    /\ TelemetryUnchanged

\* lines 224-232 with _fire_alert() called where the timer is started: the
\* alert and the menu rebuilt by the relay thread itself
RelayRecvEofDirect ==
    /\ relay.pc = "recv"
    /\ conns[relay.conn].inflight = 0
    /\ conns[relay.conn].closed
    /\ conns' = [conns EXCEPT ![relay.conn].st = "done"]
    /\ relay' = Listening
    /\ IF HasData(relay.data)
       THEN LET b == BuildMenu(cache)
            IN  /\ dispatched' = [dispatched EXCEPT ![relay.conn] = @ + 1]
                /\ lastAlert' = TRUE
                /\ cache' = b.cache
                /\ obsW' = Observed(b.w)
                /\ obsS' = b.s
                /\ lastOp' = "OnIpcMessage"
                /\ OneMoreQuietCall
       ELSE UNCHANGED <<dispatched, lastAlert, cache, obsW, obsS, lastOp,
                        quietCalls>>
    /\ Environment
    /\ UNCHANGED <<sock, timers, inst, call>>

\* lines 224-232: recv returns b"" at the end of the stream; close; the
\* timer for a payload that is not empty
RelayRecvEof ==
    /\ relay.pc = "recv"
    /\ conns[relay.conn].inflight = 0
    /\ conns[relay.conn].closed
    /\ conns' = [conns EXCEPT ![relay.conn].st = "done"]
    /\ timers' = IF HasData(relay.data) THEN Append(timers, relay.conn)
                                        ELSE timers
    /\ relay' = Listening
    /\ UNCHANGED <<sock, dispatched, lastAlert, inst>>
    /\ TelemetryUnchanged

\* line 224 raises: the connection is dropped as it is, not closed
RelayRecvError ==
    /\ relay.pc = "recv"
    /\ relay.fails < MaxFails
    /\ conns' = [conns EXCEPT ![relay.conn].st = "failed"]
    /\ relay' = Continue
    /\ UNCHANGED <<sock, timers, dispatched, lastAlert, inst>>
    /\ TelemetryUnchanged

\* _on_ipc_message(), lines 236-239, and _fire_alert(), lines 181-195:
\* the timer stopped, last_alert_time set, the menu rebuilt
OnIpcMessage ==
    /\ \E i \in DOMAIN timers :
          /\ timers' = Remove(timers, i)
          /\ dispatched' = [dispatched EXCEPT ![timers[i]] = @ + 1]
    /\ lastAlert' = TRUE
    /\ LET b == BuildMenu(cache)
       IN  /\ cache' = b.cache
           /\ obsW' = Observed(b.w)
           /\ obsS' = b.s
    /\ lastOp' = "OnIpcMessage"
    /\ OneMoreQuietCall
    /\ Environment
    /\ UNCHANGED <<sock, relay, conns, inst, call>>

(***************************************************************************)
(* RelaySpec: MaxConns peers, each with up to MaxChunks chunks to send,    *)
(* against the relay and the main thread; no stats document, no session.   *)
(***************************************************************************)
RelayInit ==
    /\ NoSessions
    /\ Fresh

RelayNext ==
    \/ ForeignBind
    \/ RelayBind
    \/ \E c \in ConnIds, n \in 0..MaxChunks : ClientConnect(c, n)
    \/ \E c \in ConnIds : ClientSend(c)
    \/ \E c \in ConnIds : ClientClose(c)
    \/ RelayAccept
    \/ RelayAcceptError
    \/ RelayRecvChunk
    \/ RelayRecvEof
    \/ RelayRecvError
    \/ OnIpcMessage

RelaySpec == RelayInit /\ [][RelayNext]_vars

Pending(c) == Cardinality({i \in DOMAIN timers : timers[i] = c})

RECURSIVE SumOver(_, _)
SumOver(f, S) ==
    IF S = {} THEN 0
    ELSE LET x == CHOOSE y \in S : TRUE IN f[x] + SumOver(f, S \ {x})

\* a connection the relay read to the end of the stream with a payload
Completed(c) == conns[c].st = "done" /\ conns[c].sent > 0

\* nothing left to do for the relay or for the main thread
Quiescent ==
    /\ relay.pc = "accept"
    /\ sock.backlog = <<>>
    /\ timers = <<>>

\* C9: a connection that delivered a payload and closed has exactly one
\* dispatch, made or pending on the main thread, and every other connection
\* has none; once nothing is pending, the number of _on_ipc_message() calls
\* is the number of completed non-empty messages.
C9_OneDispatchPerNonEmptyMessage ==
    /\ \A c \in ConnIds :
          /\ dispatched[c] + Pending(c) = IF Completed(c) THEN 1 ELSE 0
          /\ Completed(c) => conns[c].inflight = 0
    /\ Quiescent =>
          SumOver(dispatched, ConnIds) = Cardinality({c \in ConnIds : Completed(c)})

C9_Witness ==
    /\ Quiescent
    /\ \A c \in ConnIds : conns[c].st = "done"
    /\ conns[1].sent = MaxChunks /\ dispatched[1] = 1
    /\ conns[2].sent = 0 /\ dispatched[2] = 0

\* C10: an error of accept or recv leaves the relay thread in its loop,
\* back at accept; nothing is dispatched for it, and the connection it
\* failed on never gets a dispatch.
C10_TransportFailureKeepsRelayListening ==
    [][/\ relay.pc \in {"accept", "recv"} => relay'.pc \in {"accept", "recv"}
       /\ (relay.pc \in {"accept", "recv"} /\ relay'.fails # relay.fails)
            => /\ relay'.pc = "accept"
               /\ timers' = timers
               /\ dispatched' = dispatched
       /\ \A c \in ConnIds :
             conns[c].st = "failed"
                => /\ conns'[c].st = "failed"
                   /\ dispatched'[c] = 0
                   /\ Pending(c)' = 0]_vars

\* a connection failed, and a connection accepted after the failure was
\* read to its end and dispatched
C10_Witness ==
    /\ conns[1].st = "failed"
    /\ relay.pc = "accept"
    /\ conns[2].st = "done"
    /\ conns[2].after
    /\ conns[2].sent > 0
    /\ dispatched[2] = 1

(***************************************************************************)
(* InstanceSpec: two instances of the application on the one socket path,  *)
(* each started, quit or killed at any time.  This instance is the relay   *)
(* of the model; of the other one, inst.peer follows its relay thread.     *)
(* sock.state tells what the path is: "absent", "listening" (bound by this *)
(* instance, alive), "foreign" (bound by the other instance, alive) or     *)
(* "stale" (left behind by an instance that was killed).  Before the       *)
(* first start no instance runs and the path is absent or stale.           *)
(***************************************************************************)
Off == [pc |-> "off", conn |-> 0, data |-> 0, fails |-> 0]

Unlinked == [state |-> "absent", backlog |-> <<>>]

\* _cleanup_socket(), lines 205-209: the path is unlinked whatever it is
CleanupSocket(path) == "absent"

\* the end of this instance's process: thread, socket and timers are gone
ProcessEnds ==
    /\ relay' = Off
    /\ timers' = <<>>
    /\ UNCHANGED <<conns, dispatched, lastAlert>>

\* __init__(), lines 21-28: the menu built on the cache of a new process,
\* then _start_ipc_listener(), lines 199-203, which returns None
AppInit ==
    /\ relay.pc = "off"
    /\ LET b == BuildMenu(InitialCache)
       IN  /\ cache' = b.cache
           /\ obsW' = Observed(b.w)
           /\ obsS' = b.s
    /\ lastOp' = "AppInit"
    /\ OneMoreQuietCall
    /\ Environment
    /\ sock' = [state |-> CleanupSocket(sock.state), backlog |-> <<>>]
    /\ relay' = [Off EXCEPT !.pc = "bind"]
    /\ inst' = [inst EXCEPT !.start = "returned"]
    /\ UNCHANGED <<conns, timers, dispatched, lastAlert, call>>

\* _quit(), lines 175-177: _cleanup_socket(), then the application quits
Quit ==
    /\ relay.pc # "off"
    /\ sock' = [state |-> CleanupSocket(sock.state), backlog |-> <<>>]
    /\ ProcessEnds
    /\ UNCHANGED inst
    /\ TelemetryUnchanged

\* this instance is killed: nothing is cleaned up
Crash ==
    /\ relay.pc # "off"
    /\ sock' = [state |-> IF sock.state = "listening" THEN "stale" ELSE sock.state,
                backlog |-> <<>>]
    /\ ProcessEnds
    /\ UNCHANGED inst
    /\ TelemetryUnchanged

\* the other instance: __init__()
PeerInit ==
    /\ inst.peer = "off"
    /\ sock' = [sock EXCEPT !.state = CleanupSocket(@)]
    /\ inst' = [inst EXCEPT !.peer = "bind"]
    /\ UNCHANGED <<relay, conns, timers, dispatched, lastAlert>>
    /\ TelemetryUnchanged

\* the other instance: lines 213-217 on its relay thread
PeerBind ==
    /\ inst.peer = "bind"
    /\ IF sock.state = "absent"
       THEN /\ sock' = [sock EXCEPT !.state = "foreign"]
            /\ inst' = [inst EXCEPT !.peer = "accept"]
       ELSE /\ inst' = [inst EXCEPT !.peer = "dead"]
            /\ UNCHANGED sock
    /\ UNCHANGED <<relay, conns, timers, dispatched, lastAlert>>
    /\ TelemetryUnchanged

\* the other instance: _quit()
PeerQuit ==
    /\ inst.peer # "off"
    /\ sock' = [sock EXCEPT !.state = CleanupSocket(@)]
    /\ inst' = [inst EXCEPT !.peer = "off"]
    /\ UNCHANGED <<relay, conns, timers, dispatched, lastAlert>>
    /\ TelemetryUnchanged

\* the other instance is killed
PeerCrash ==
    /\ inst.peer # "off"
    /\ sock' = [sock EXCEPT !.state = IF @ = "foreign" THEN "stale" ELSE @]
    /\ inst' = [inst EXCEPT !.peer = "off"]
    /\ UNCHANGED <<relay, conns, timers, dispatched, lastAlert>>
    /\ TelemetryUnchanged

InstanceInit ==
    /\ NoSessions
    /\ today = FirstDay
    /\ statsFile = AbsentStats
    /\ cache = InitialCache
    /\ obsW = NotCalled
    /\ obsS = NotCalledS
    /\ lastOp = "Env"
    /\ quietCalls = 0
    /\ call = Idle
    /\ sock \in {Unlinked, [Unlinked EXCEPT !.state = "stale"]}
    /\ relay = Off
    /\ conns = [c \in ConnIds |-> NoConn]
    /\ timers = <<>>
    /\ dispatched = [c \in ConnIds |-> 0]
    /\ lastAlert = FALSE
    /\ inst = [peer |-> "off", start |-> "notcalled"]

InstanceNext ==
    \/ AppInit
    \/ RelayBind
    \/ Quit
    \/ Crash
    \/ PeerInit
    \/ PeerBind
    \/ PeerQuit
    \/ PeerCrash
    \/ \E c \in ConnIds, n \in 0..MaxChunks : ClientConnect(c, n)
    \/ \E c \in ConnIds : ClientSend(c)
    \/ \E c \in ConnIds : ClientClose(c)
    \/ RelayAccept
    \/ RelayRecvChunk
    \/ RelayRecvEof
    \/ OnIpcMessage

InstanceSpec == InstanceInit /\ [][InstanceNext]_vars

Alive == relay.pc \in {"accept", "recv"}

PeerAlive == inst.peer = "accept"

Starting == relay.pc = "off" /\ relay'.pc # "off"

\* C11: a start on a path bound by the live listener of another instance
\* ends in an explicit failure and leaves that listener's endpoint in place;
\* a start on a stale leftover unlinks it and returns normally.
C11_StartOnLiveListenerFails ==
    [][Starting =>
          /\ (sock.state = "foreign" /\ PeerAlive)
                => /\ inst'.start = "raised"
                   /\ sock'.state = "foreign"
          /\ sock.state = "stale"
                => /\ inst'.start = "returned"
                   /\ sock'.state = "absent"]_vars

(***************************************************************************)
(* SourceSpec: the calls on every condition of their sources: the stats    *)
(* document absent, unreadable, not parseable, parsed to a value that is   *)
(* not an object, or good; two session indexes, each unreadable, not       *)
(* parseable, not an object, or good with one entry; the session logs      *)
(* absent, unreadable or good.                                             *)
(***************************************************************************)
SourceKinds == {"unreadable", "malformed", "nonobject"}

StatsSources ==
    {AbsentStats, [kind |-> "ok", mtime |-> 1, doc |-> DocOf({FirstDay})]}
    \cup {[kind |-> k, mtime |-> 1, doc |-> EmptyDoc] : k \in SourceKinds}

IndexSources(path) ==
    {OkIndex(<<EntryFor(path, m)>>) : m \in Mtimes \ {0}}
    \cup {[kind |-> k, entries |-> <<>>] : k \in SourceKinds}

LogSources(path) ==
    {NoFile, FileVersion(path, 1),
     [FileVersion(path, 1) EXCEPT !.readable = FALSE]}

SourceInit ==
    /\ statsFile \in StatsSources
    /\ indexes \in {<<a, b>> : a \in IndexSources(PathA), b \in IndexSources(PathB)}
    /\ files \in {[p \in Paths |-> IF p = PathA THEN fa ELSE fb] :
                     fa \in LogSources(PathA), fb \in LogSources(PathB)}
    /\ today = FirstDay
    /\ cache = InitialCache
    /\ obsW = NotCalled
    /\ obsS = NotCalledS
    /\ lastOp = "Env"
    /\ quietCalls = 0
    /\ call = Idle
    /\ RelayAtRest

SourceSpec == SourceInit /\ [][Handlers]_vars

RECURSIVE GoodOnes(_)
GoodOnes(idxs) ==
    IF idxs = <<>> THEN <<>>
    ELSE (IF Head(idxs).kind = "ok" THEN <<Head(idxs)>> ELSE <<>>)
            \o GoodOnes(Tail(idxs))

ZeroCounters(r) ==
    /\ r.messages = 0
    /\ r.input_tokens = 0
    /\ r.output_tokens = 0
    /\ r.cache_read = 0
    /\ r.cache_create = 0

\* C12: with any source absent, unreadable or malformed at the document
\* level (not parseable, or parsed to something that is not an object),
\* neither call raises: a bad stats document gives the empty weekly
\* aggregate, a bad index is skipped and the others are scanned, no
\* selectable session gives the default record, and an unreadable log gives
\* zero counters.
C12_BadSourcesNeverRaise ==
    AfterCall =>
        /\ obsW.outcome \in {"default", "cached", "computed"}
        /\ obsS.outcome \in {"default", "cached", "computed"}
        /\ statsFile.kind \in SourceKinds \cup {"absent"}
              => obsW.result = EmptyWeekly
        /\ LET sel == FindLatestSession(GoodOnes(indexes), files)
           IN  /\ obsS.path = sel.best_path
               /\ sel.best_entry = None => obsS.result = DefaultSession
               /\ (sel.best_entry # None /\ ~files[sel.best_path].readable)
                     => ZeroCounters(obsS.result)

\* a line that is not a valid event record
Malformed(l) == l.line \in {"garbage", "scalar"}

RECURSIVE WithoutMalformed(_)
WithoutMalformed(log) ==
    IF log = <<>> THEN <<>>
    ELSE (IF Malformed(Head(log)) THEN <<>> ELSE <<Head(log)>>)
            \o WithoutMalformed(Tail(log))

\* C13: whatever lines of the session log are malformed, and wherever,
\* get_session_stats() returns, and its message count and token totals are
\* those of the log without the malformed lines.
C13_MalformedLinesSkipped ==
    (AfterCall /\ obsS.outcome # "notcalled") =>
        /\ obsS.outcome \in {"computed", "cached"}
        /\ LET clean == [files[PathA] EXCEPT !.log = WithoutMalformed(@)]
               r == ComputeSession(TheEntry, clean).result
           IN  /\ obsS.result.messages = r.messages
               /\ obsS.result.input_tokens = r.input_tokens
               /\ obsS.result.output_tokens = r.output_tokens
               /\ obsS.result.cache_read = r.cache_read
               /\ obsS.result.cache_create = r.cache_create

(***************************************************************************)
(* StalledSpec: the relay and its peers with a main thread that never      *)
(* runs a timer.  The relay thread takes the step its system call allows   *)
(* (accept with a connection waiting, recv with bytes or the end of the    *)
(* stream), and a peer that has connected closes in the end.  The system   *)
(* calls do not fail here: transport failures are RelaySpec's.             *)
(***************************************************************************)
StalledNext ==
    \/ ForeignBind
    \/ RelayBind
    \/ \E c \in ConnIds, n \in 0..MaxChunks : ClientConnect(c, n)
    \/ \E c \in ConnIds : ClientSend(c)
    \/ \E c \in ConnIds : ClientClose(c)
    \/ RelayAccept
    \/ RelayRecvChunk
    \/ RelayRecvEof

StalledSpec ==
    /\ RelayInit
    /\ [][StalledNext]_vars
    /\ WF_vars(RelayAccept)
    /\ WF_vars(RelayRecvChunk)
    /\ WF_vars(RelayRecvEof)
    /\ \A c \in ConnIds : WF_vars(ClientClose(c))

\* C14: with the main thread never running _on_ipc_message(), every
\* connection made is still accepted and read to its end (or fails), however
\* many wake-ups are pending.
C14_RelayNeverWaitsForConsumer ==
    \A c \in ConnIds :
        (conns[c].st = "queued") ~> (conns[c].st \in {"done", "failed"})

\* every connection was read to its end with a payload and no timer fired
C14_Witness ==
    /\ \A c \in ConnIds : Completed(c) /\ dispatched[c] = 0
    /\ Len(timers) = MaxConns
    /\ relay.pc = "accept"

\* a step of the relay thread: its position in _ipc_loop() moves
RelayThreadStep == relay' # relay

\* a step that runs _build_menu() or _fire_alert(), or touches usage._cache
MainThreadWork ==
    \/ cache' # cache
    \/ obsW' # obsW
    \/ obsS' # obsS
    \/ lastAlert' # lastAlert
    \/ dispatched' # dispatched

\* C15: no step of the relay thread fires an alert, rebuilds the menu, calls
\* get_weekly_stats() or get_session_stats(), or reads or writes
\* usage._cache; each of these happens in a step of a main-thread handler,
\* one handler at a time.
C15_RelayThreadConfined ==
    [][/\ RelayThreadStep => ~MainThreadWork
       /\ MainThreadWork =>
             /\ lastOp' \in {"AutoRefresh", "Refresh", "OnIpcMessage"}
             /\ relay' = relay]_vars

\* the main thread has fired an alert and rebuilt the menu while the relay
\* thread is in the middle of reading the next connection
C15_Witness ==
    /\ lastOp = "OnIpcMessage"
    /\ dispatched[1] = 1
    /\ obsW.outcome # "notcalled"
    /\ relay.pc = "recv"
    /\ relay.conn = 2
    /\ relay.data > 0

\* the cache get_weekly_stats() is entered with in the step of a handler
CacheAtCall == IF lastOp' = "Refresh" THEN Invalidate(cache) ELSE cache

\* C16: a get_weekly_stats() call that ends on a failure path returns the
\* empty WeeklyStats and leaves every field of the cache as it found it;
\* a call changes stats_mtime or stats_data only by storing both, the
\* file's modification time and the aggregate it has just computed.
C16_FailurePathLeavesCacheAlone ==
    [][lastOp' \in {"AutoRefresh", "Refresh"} =>
          /\ (obsW'.outcome = "default" /\ statsFile.kind # "ok")
                => /\ obsW'.result = EmptyWeekly
                   /\ cache' = CacheAtCall
          /\ (cache'.stats_mtime # CacheAtCall.stats_mtime
                \/ cache'.stats_data # CacheAtCall.stats_data)
                => /\ obsW'.outcome = "computed"
                   /\ cache'.stats_mtime = statsFile.mtime
                   /\ cache'.stats_data = obsW'.result]_vars

\* a call on a document that cannot be parsed has left the aggregate cached
\* from an earlier version in place
C16_Witness ==
    /\ lastOp = "AutoRefresh"
    /\ obsW.outcome = "default"
    /\ statsFile.kind = "malformed"
    /\ cache.stats_data # None
    /\ cache.stats_mtime # statsFile.mtime

\* a timestamp that is missing or malformed by itself
BadStamp(ts) == ts.form \in {"absent", "empty", "number", "garbage"}

MalformedPair ==
    \/ BadStamp(TheEntry.created)
    \/ BadStamp(TheEntry.modified)
    \/ IsAware(TheEntry.created) # IsAware(TheEntry.modified)

\* C17: when created or modified of the selected entry is absent, empty, not
\* a string, not ISO-8601, or the two disagree on having a zone,
\* get_session_stats() returns normally, with duration "0s" and with the
\* message count and the token totals of the session log.
C17_MalformedTimestampsGiveZeroDuration ==
    (AfterCall /\ obsS.outcome # "notcalled" /\ MalformedPair) =>
        /\ obsS.outcome \in {"computed", "cached"}
        /\ obsS.result.duration = "0s"
        /\ LET st == ParseLog(TheLog, ParseStart)
           IN  /\ obsS.result.messages = st.msg_count
               /\ obsS.result.input_tokens = st.input_tokens
               /\ obsS.result.output_tokens = st.output_tokens
               /\ obsS.result.cache_read = st.cache_read
               /\ obsS.result.cache_create = st.cache_create

(***************************************************************************)
(* IndexSpec: one session whose index entry Claude Code rewrites (another  *)
(* summary, a later modified timestamp) independently of the writes to the *)
(* session log.                                                            *)
(***************************************************************************)
Summaries == {Text("Fix the parser", 14), Text("Add tests", 9), EmptyText}

ModifiedAt == {125, 3725}

RewriteEntry ==
    /\ \E t \in Summaries, secs \in ModifiedAt :
          /\ indexes' = [indexes EXCEPT ![1].entries[1].summary = t,
                                        ![1].entries[1].modified = Aware(secs)]
          /\ indexes' # indexes
    /\ lastOp' = "Env"
    /\ UNCHANGED <<today, statsFile, files, cache, obsW, obsS, quietCalls>>
    /\ UNCHANGED <<relayVars, call>>

IndexInit ==
    /\ \E m \in Mtimes : OneSession(EntryFor(PathA, 1), FileVersion(PathA, m))
    /\ Fresh

IndexNext ==
    \/ AutoRefresh
    \/ Refresh
    \/ WriteSession
    \/ RewriteEntry

IndexSpec == IndexInit /\ [][IndexNext]_vars

\* C18: a record get_session_stats() serves from the cache is the record a
\* full recomputation on the indexes and files of that moment returns, in
\* every field.
C18_CachedEqualsRecomputed ==
    (AfterCall /\ obsS.outcome = "cached") =>
        LET sel == FindLatestSession(indexes, files)
        IN  obsS.result = ComputeSession(sel.best_entry, files[sel.best_path]).result

(***************************************************************************)
(* RaceSpec: get_weekly_stats() step by step against the writer of the     *)
(* stats file.  A call reads the modification time (line 66), and, on a    *)
(* miss, opens and reads the file later (lines 74-75); the writer replaces *)
(* the file in one step, with another modification time, at any point,     *)
(* between the two included.  call.doc is the document the file held at    *)
(* line 66, call.raced tells that the file was written during the call,    *)
(* and call.ordered that every write so far gave the file a later time     *)
(* than it had.  The week does not change and no session exists.  A write  *)
(* stores a document of at most one daily record: what the race decides is *)
(* which document a call reads, not how a document is summed.              *)
(***************************************************************************)
MaxWrites == 2

WrittenDocs == {DocOf(S) : S \in {T \in SUBSET RecordDays : Cardinality(T) <= 1}}

\* the document read first and the modification time after it: the
\* content of the earlier point with the time of the later one
TimeAfterContent(cl, sf) == [file |-> [sf EXCEPT !.doc = cl.doc], mtime |-> sf.mtime]

\* what a call works on: the modification time of line 66, then the file
\* as lines 74-75 find it
TimeBeforeContent(cl, sf) == [file |-> sf, mtime |-> cl.mtime]

\* the handler h up to line 71 of get_weekly_stats(): done at once when the
\* file is absent or the cache is hit, else left at the miss
WeeklyCheck(h) ==
    /\ call.pc = "idle"
    /\ LET c == IF h = "Refresh" THEN Invalidate(cache) ELSE cache
       IN  IF statsFile.kind = "absent" \/ WeeklyCacheHit(c, statsFile.mtime)
           THEN LET b == BuildMenu(c)
                IN  /\ cache' = b.cache
                    /\ obsW' = Observed(b.w)
                    /\ obsS' = b.s
                    /\ lastOp' = h
                    /\ OneMoreQuietCall
                    /\ call' = [Idle EXCEPT !.ordered = call.ordered]
           ELSE /\ cache' = c
                /\ call' = [pc |-> "read", handler |-> h,
                            mtime |-> statsFile.mtime, doc |-> statsFile.doc,
                            raced |-> FALSE, ordered |-> call.ordered]
                /\ UNCHANGED <<obsW, obsS, lastOp, quietCalls>>
    /\ Environment
    /\ UNCHANGED relayVars

\* lines 73-99, then get_session_stats() and the rest of the handler
WeeklyRead ==
    /\ call.pc = "read"
    /\ LET seen == TimeBeforeContent(call, statsFile)
           w == ReadAndStore(cache, seen.file, today, seen.mtime)
           s == GetSessionStats(w.cache, indexes, files)
       IN  /\ cache' = IF w.outcome = "raised" THEN w.cache ELSE s.cache
           /\ obsW' = Observed(w)
           /\ obsS' = IF w.outcome = "raised" THEN NotCalledS ELSE Strip(s)
    /\ lastOp' = call.handler
    /\ OneMoreQuietCall
    /\ call' = [Idle EXCEPT !.raced = call.raced, !.ordered = call.ordered]
    /\ Environment
    /\ UNCHANGED relayVars

\* the stats file is replaced: another document, another time
WriterModifies ==
    /\ \E d \in WrittenDocs, m \in 1..MaxWrites :
          /\ statsFile.kind = "ok" => (d # statsFile.doc /\ m # statsFile.mtime)
          /\ statsFile' = [kind |-> "ok", mtime |-> m, doc |-> d]
          /\ call' = [call EXCEPT !.raced = (call.pc = "read"),
                                  !.ordered = @ /\ m > statsFile.mtime]
    /\ lastOp' = "Env"
    /\ quietCalls' = 0
    /\ UNCHANGED <<today, indexes, files, cache, obsW, obsS>>
    /\ UNCHANGED relayVars

RaceInit ==
    /\ NoSessions
    /\ Fresh

RaceNext ==
    \/ \E h \in {"AutoRefresh", "Refresh"} : WeeklyCheck(h)
    \/ WeeklyRead
    \/ WriterModifies

RaceSpec == RaceInit /\ [][RaceNext]_vars

FinalContentServed ==
    /\ (AfterCall /\ ~call.raced /\ statsFile.kind = "ok")
          => obsW.result = WeeklyAggregate(statsFile.doc, today)
    /\ (statsFile.kind = "ok" /\ cache.stats_data # None
            /\ cache.stats_mtime = statsFile.mtime)
          => cache.stats_data = WeeklyAggregate(statsFile.doc, today)

\* C19, as stated: with every write changing the modification time, a call
\* that began after the last write of the stats file returns the aggregate
\* of the file as it is; and the cache never holds the file's present
\* modification time with an aggregate of another content.
C19_CallsAfterLastWriteSeeFinalContent == FinalContentServed

\* C19, amended: the same when every write gives the file a modification
\* time later than the one it had.
C19_CallsAfterLastOrderedWriteSeeFinalContent ==
    call.ordered => FinalContentServed

\* a write landed between the check and the read of a call, which has
\* stored the earlier time with the aggregate of the later content
C19_Witness ==
    /\ AfterCall
    /\ call.raced
    /\ call.ordered
    /\ call.pc = "idle"
    /\ obsW.outcome = "computed"
    /\ cache.stats_mtime < statsFile.mtime
    /\ cache.stats_data = WeeklyAggregate(statsFile.doc, today)
    /\ cache.stats_data.messages > 0

(***************************************************************************)
(* Two instances on one channel path (InstanceSpec): what the cleanups     *)
(* remove.                                                                 *)
(***************************************************************************)
\* the path names the endpoint of a relay that is bound and running
PathServed ==
    \/ sock.state = "listening" /\ Alive
    \/ sock.state = "foreign" /\ PeerAlive

\* the endpoint of a live relay stops being what the path names
LiveEndpointRemoved ==
    \/ sock.state = "foreign" /\ PeerAlive /\ sock'.state # "foreign"
    \/ sock.state = "listening" /\ Alive /\ sock'.state # "listening"

\* the instance whose relay was bound to the path ends in this step
OwnerEnds ==
    \/ sock.state = "foreign" /\ inst'.peer = "off"
    \/ sock.state = "listening" /\ relay'.pc = "off"

\* C20: a cleanup removes the endpoint of a live relay only as part of the
\* end of that relay's own instance, and whenever an instance runs with its
\* relay bound the path names an endpoint on which a live relay accepts.
C20_CleanupSparesLiveEndpoints ==
    [][/\ LiveEndpointRemoved => OwnerEnds
       /\ (Alive' \/ PeerAlive') => PathServed']_vars

(***************************************************************************)
(* OrderSpec: RelaySpec with the peers connecting in the order of their    *)
(* numbers, so that a smaller number is an earlier connection and, accept  *)
(* returning the oldest connection waiting, an earlier acceptance.         *)
(***************************************************************************)
ClientConnectInTurn(c, n) ==
    /\ \A d \in ConnIds : d < c => conns[d].st # "new"
    /\ ClientConnect(c, n)

OrderNext ==
    \/ ForeignBind
    \/ RelayBind
    \/ \E c \in ConnIds, n \in 0..MaxChunks : ClientConnectInTurn(c, n)
    \/ \E c \in ConnIds : ClientSend(c)
    \/ \E c \in ConnIds : ClientClose(c)
    \/ RelayAccept
    \/ RelayAcceptError
    \/ RelayRecvChunk
    \/ RelayRecvEof
    \/ RelayRecvError
    \/ OnIpcMessage

OrderSpec == RelayInit /\ [][OrderNext]_vars

\* the relay has taken the connection off the listening socket
Accepted(c) == conns[c].st \in {"open", "done", "failed"}

\* the connection was read to the end of its stream, or raised
Over(c) == conns[c].st \in {"done", "failed"}

\* a wake-up for the connection was enqueued, fired or not
Enqueued(c) == Pending(c) > 0 \/ dispatched[c] > 0

\* C21: the connection being read is the only one open and the relay is in
\* its recv loop on it; a connection is accepted only when every earlier one
\* is over; the pending wake-ups stand in acceptance order; and a wake-up is
\* enqueued or fired only when the connection and every earlier one is over.
C21_OneConnectionAtATimeInOrder ==
    /\ \A c \in ConnIds :
          conns[c].st = "open" => (relay.pc = "recv" /\ relay.conn = c)
    /\ \A c, d \in ConnIds : (Accepted(c) /\ d < c) => Over(d)
    /\ \A i, j \in DOMAIN timers : i < j => timers[i] < timers[j]
    /\ \A c, d \in ConnIds : (Enqueued(c) /\ d <= c) => Over(d)

\* the wake-ups of two connections accepted one after the other are both
\* pending, after a failure the relay has gone past
C21_Witness ==
    /\ Len(timers) >= 2
    /\ relay.fails > 0
    /\ \E c, d \in ConnIds :
          /\ d < c
          /\ Completed(d)
          /\ Completed(c)
          /\ Pending(d) > 0
          /\ Pending(c) > 0

====
